---- MODULE Spec2Model ----
(***************************************************************************)
(* Model of mp3_combiner.py: the start-up checks, the raw-mode interactive *)
(* list editor (focus / pick-up-and-drag reordering), the combine pass     *)
(* over the final order, and the terminal-mode restoration.                *)
(*                                                                         *)
(* Python indices are kept 0-based: the entry at Python index k of a list  *)
(* s is s[k + 1] here.                                                     *)
(***************************************************************************)
EXTENDS Integers, Sequences, FiniteSets, TLC

\* ------------------------------------------------------------------ bounds
\* Largest number of .mp3 entries the input folder holds.
MaxLen == 3
\* Largest number of key events recorded in one drag session (from the pick
\* up to, not counting, the unpick).
MaxTrace == 3

\* ------------------------------------------------------------- input domains
\* Names of the entries an input folder can hold. A folder holds the first
\* k <= MaxLen of Mp3Pool and any of Others.
Mp3Pool == <<"b.mp3", "a.MP3", "C.mp3", "d.Mp3">>
Others == {"c.txt", "mp3"}

\* The characters of a name, in order.
Chars(name) ==
    CASE name = "b.mp3" -> <<"b", ".", "m", "p", "3">>
      [] name = "a.MP3" -> <<"a", ".", "M", "P", "3">>
      [] name = "C.mp3" -> <<"C", ".", "m", "p", "3">>
      [] name = "d.Mp3" -> <<"d", ".", "M", "p", "3">>
      [] name = "c.txt" -> <<"c", ".", "t", "x", "t">>
      [] name = "mp3" -> <<"m", "p", "3">>

\* The code point of a character (the order Python compares strings by).
CodePoint(ch) ==
    CASE ch = "." -> 46 [] ch = "3" -> 51 [] ch = "C" -> 67 [] ch = "M" -> 77
      [] ch = "P" -> 80 [] ch = "a" -> 97 [] ch = "b" -> 98 [] ch = "c" -> 99
      [] ch = "d" -> 100 [] ch = "m" -> 109 [] ch = "p" -> 112
      [] ch = "t" -> 116 [] ch = "x" -> 120

ESC == "ESC"
CR == "CR"
LF == "LF"
\* sys.stdin.read(1) at end of input returns the empty string.
EOF == ""
\* What one sys.stdin.read(1) can return.
Reads == {ESC, "[", "A", "B", CR, LF, "c", "q", "x", EOF}
\* The first bytes of a key event told apart: one per branch of the loop
\* body, "x" for every byte no branch tests for.
FirstReads == {ESC, CR, LF, "c", "q", "x", EOF}

\* The terminal modes the program can find the terminal in, and raw mode.
RAW == "raw"
Modes == {"cooked", "cbreak"}

\* selected_index = None
None == -1
\* A Python name that has not been assigned yet.
Unbound == "unbound"

\* Duration of the silence placed after a decoded track, in ms.
SilenceMs == 3000
\* Durations (ms) a successfully decoded file can have.
DecodedLens == {0, 1000}
\* What read_mp3_file can do with one file: return audio, or raise one of
\* CouldntDecodeError, IOError, OSError.
Outcomes == {[ok |-> FALSE, ms |-> 0]} \cup {[ok |-> TRUE, ms |-> d] : d \in DecodedLens}

VARIABLES
    pc,                \* position of the single control thread
    term,              \* the terminal's current mode
    original_settings, \* the mode saved by tcgetattr
    mp3_files,         \* the list being edited
    focused_index,
    selected_index,
    char,              \* the first byte of the last key event
    eof,               \* the input stream has ended
    all_items,         \* os.listdir result, local to list_mp3_files
    i,                 \* number of files the combine loop has processed
    combined_audio,    \* sequence of segments
    output_file,       \* what export wrote
    raised,            \* exception propagating out of the try block
    reported,          \* the error message printed
    exit_code,
    \* history variables (observation only)
    restores,          \* number of tcsetattr calls
    attempts,          \* filenames handed to read_mp3_file, in order
    results,           \* the outcome of each attempt, in order
    exports,           \* number of export calls
    initial_files,     \* the list as list_mp3_files returned it
    final_order,       \* the list at the moment the loop was left by a key
    consumed,          \* number of bytes the last key event took from stdin
    pick,              \* editor state before the last pick
    trace              \* commands of the last drag session of the loop

vars == <<pc, term, original_settings, mp3_files, focused_index, selected_index,
          char, eof, i, combined_audio, output_file, raised,
          reported, exit_code, restores, attempts, results, exports,
          initial_files, final_order, pick, trace, all_items, consumed>>

\* ---------------------------------------------------------------- helpers
Range(s) == {s[k] : k \in 1..Len(s)}

Min(a, b) == IF a < b THEN a ELSE b
Max(a, b) == IF a > b THEN a ELSE b

\* a, b = b, a on Python indices a and b of list s
Swap(s, a, b) == [s EXCEPT ![a + 1] = s[b + 1], ![b + 1] = s[a + 1]]

Editor(files, focus, sel) == [files |-> files, focus |-> focus, sel |-> sel]
Current == Editor(mp3_files, focused_index, selected_index)

\* ------------------------------------------------------------ file lister
\* str.lower() on a sequence of characters
lower(cs) ==
    [k \in 1..Len(cs) |->
        CASE cs[k] = "C" -> "c" [] cs[k] = "M" -> "m" [] cs[k] = "P" -> "p"
          [] OTHER -> cs[k]]

\* str.endswith
endswith(cs, suffix) ==
    /\ Len(cs) >= Len(suffix)
    /\ SubSeq(cs, Len(cs) - Len(suffix) + 1, Len(cs)) = suffix

RECURSIVE StrLess(_, _)
\* x < y on Python strings: code point by code point, a proper prefix first.
StrLess(x, y) ==
    IF y = <<>> THEN FALSE
    ELSE IF x = <<>> THEN TRUE
    ELSE IF Head(x) # Head(y) THEN CodePoint(Head(x)) < CodePoint(Head(y))
    ELSE StrLess(Tail(x), Tail(y))

RECURSIVE Insert(_, _)
\* The sorted list s with name x put at its place.
Insert(x, s) ==
    IF s = <<>> THEN <<x>>
    ELSE IF StrLess(Chars(x), Chars(Head(s))) THEN <<x>> \o s
    ELSE <<Head(s)>> \o Insert(x, Tail(s))

RECURSIVE sorted(_)
\* sorted() on a list of names
sorted(s) == IF s = <<>> THEN <<>> ELSE Insert(Head(s), sorted(Tail(s)))

\* The extension test made on the name as it is spelled, not lowercased.
list_mp3_files_nolower(items) ==
    sorted(SelectSeq(items, LAMBDA file : endswith(Chars(file), <<".", "m", "p", "3">>)))

\* list_mp3_files applied to what os.listdir returned
list_mp3_files(items) ==
    sorted(SelectSeq(items, LAMBDA file :
                endswith(lower(Chars(file)), <<".", "m", "p", "3">>)))

\* The orders os.listdir can return the entries of folder d in.
Orderings(d) ==
    {f \in [1..Cardinality(d) -> d] : \A j, k \in 1..Cardinality(d) : f[j] = f[k] => j = k}

\* The folders the program is run on.
Directories ==
    {{Mp3Pool[j] : j \in 1..k} \cup o : k \in 0..MaxLen, o \in SUBSET Others}

\* ------------------------------------------------------------ list editor
\* No clamp at the top: the move wraps around to the last position.
ArrowUp_wrap(files, focus, sel) ==
    IF sel # None
      THEN IF sel > 0
             THEN Editor(Swap(files, sel, sel - 1), sel - 1, sel - 1)
             ELSE Editor(Swap(files, 0, Len(files) - 1), Len(files) - 1, Len(files) - 1)
      ELSE Editor(files, (focus - 1 + Len(files)) % Len(files), sel)

\* No max(0, ...) on the new focus.
ArrowUp_noclamp(files, focus, sel) ==
    IF sel # None
      THEN IF sel > 0
             THEN Editor(Swap(files, sel, sel - 1), sel - 1, sel - 1)
             ELSE Editor(files, focus, sel)
      ELSE Editor(files, focus - 1, sel)

\* Up arrow
ArrowUp(files, focus, sel) ==
    IF sel # None
      THEN IF sel > 0
             THEN Editor(Swap(files, sel, sel - 1), sel - 1, sel - 1)
             ELSE Editor(files, focus, sel)
      ELSE Editor(files, Max(0, focus - 1), sel)

\* The swap written as a single assignment: the lower entry is overwritten.
ArrowDown_dup(files, focus, sel) ==
    IF sel # None
      THEN IF sel < Len(files) - 1
             THEN Editor([files EXCEPT ![sel + 2] = files[sel + 1]], sel + 1, sel + 1)
             ELSE Editor(files, focus, sel)
      ELSE Editor(files, Min(Len(files) - 1, focus + 1), sel)

\* The boundary test off by one: the last position is never reached.
ArrowDown_short(files, focus, sel) ==
    IF sel # None
      THEN IF sel < Len(files) - 2
             THEN Editor(Swap(files, sel, sel + 1), sel + 1, sel + 1)
             ELSE Editor(files, focus, sel)
      ELSE Editor(files, Min(Len(files) - 1, focus + 1), sel)

\* The focus does not follow the entry that is moved.
ArrowDown_nofocus(files, focus, sel) ==
    IF sel # None
      THEN IF sel < Len(files) - 1
             THEN Editor(Swap(files, sel, sel + 1), focus, sel + 1)
             ELSE Editor(files, focus, sel)
      ELSE Editor(files, Min(Len(files) - 1, focus + 1), sel)

\* Down arrow
ArrowDown(files, focus, sel) ==
    IF sel # None
      THEN IF sel < Len(files) - 1
             THEN Editor(Swap(files, sel, sel + 1), sel + 1, sel + 1)
             ELSE Editor(files, focus, sel)
      ELSE Editor(files, Min(Len(files) - 1, focus + 1), sel)

\* Deselecting also sends the focus back to the top.
Enter_refocus(files, focus, sel) ==
    IF sel = None
      THEN Editor(files, focus, focus)
      ELSE Editor(files, 0, None)

\* Selecting picks the first entry, wherever the focus is.
Enter_pickfirst(files, focus, sel) ==
    IF sel = None
      THEN Editor(files, focus, 0)
      ELSE Editor(files, focus, None)

\* Enter key
Enter(files, focus, sel) ==
    IF sel = None
      THEN Editor(files, focus, focus)
      ELSE Editor(files, focus, None)

\* The branch of the loop body that bytes c, n, a take.
Decode(c, n, a) ==
    IF c = ESC
      THEN IF n = "["
             THEN IF a = "A" THEN "MoveUp"
                  ELSE IF a = "B" THEN "MoveDown"
                  ELSE "Ignore"
             ELSE "Ignore"
      ELSE IF c = CR \/ c = LF THEN "TogglePick"
      ELSE IF c = "c" THEN "Combine"
      ELSE IF c = "q" THEN "Quit"
      ELSE "Ignore"

\* A key no branch handles drops the selection.
Apply_deselect(cmd, files, focus, sel) ==
    IF cmd = "MoveUp" THEN ArrowUp(files, focus, sel)
    ELSE IF cmd = "MoveDown" THEN ArrowDown(files, focus, sel)
    ELSE IF cmd = "TogglePick" THEN Enter(files, focus, sel)
    ELSE Editor(files, focus, None)

\* The editor state after the loop body ran for one command.
Apply(cmd, files, focus, sel) ==
    IF cmd = "MoveUp" THEN ArrowUp(files, focus, sel)
    ELSE IF cmd = "MoveDown" THEN ArrowDown(files, focus, sel)
    ELSE IF cmd = "TogglePick" THEN Enter(files, focus, sel)
    ELSE Editor(files, focus, sel)

\* No branch of the loop body restores the terminal.
RestoresInLoop_none(cmd) == FALSE

\* The 'q' branch restores the terminal as well.
RestoresInLoop_quit(cmd) == cmd = "Combine" \/ cmd = "Quit"

\* The branches of the loop body that call tcsetattr themselves.
RestoresInLoop(cmd) == cmd = "Combine"

\* The drag-session record after one command: it starts at a pick, grows
\* with every command of the session up to the unpick, and is dropped by
\* the next browse-mode command and when the loop is left.
NextTrace(cmd) ==
    IF cmd \in {"Combine", "Quit"} THEN <<>>
    ELSE IF cmd = "TogglePick" /\ selected_index = None THEN <<cmd>>
    ELSE IF selected_index # None THEN Append(trace, cmd)
    ELSE <<>>

NoPick == Editor(<<>>, 0, None)

NextPick(cmd) ==
    IF cmd \in {"Combine", "Quit"} THEN NoPick
    ELSE IF cmd = "TogglePick" /\ selected_index = None THEN Current
    ELSE IF selected_index # None \/ cmd = "TogglePick" THEN pick
    ELSE NoPick

\* How many bytes one iteration takes from stdin when its reads return c,
\* n and a: a read at end of input returns EOF and takes nothing; the second
\* read is made after ESC only, the third after ESC '[' only.
BytesConsumed(c, n, a) ==
    IF c = EOF THEN 0
    ELSE IF c # ESC \/ n = EOF THEN 1
    ELSE IF n # "[" \/ a = EOF THEN 2
    ELSE 3

\* One iteration of the interactive loop reading byte c, then (after ESC)
\* n, then (after ESC '[') a. next_char and arrow_key are assigned before
\* every use and are not kept between iterations.
KeyEvent(c, n, a) ==
    /\ pc = "loop"
    /\ eof => c = EOF
    /\ (selected_index # None /\ Decode(c, n, a) \in {"MoveUp", "MoveDown", "Ignore"})
          => Len(trace) < MaxTrace
    /\ char' = c
    /\ eof' = (eof \/ c = EOF \/ (c = ESC /\ (n = EOF \/ (n = "[" /\ a = EOF))))
    /\ LET cmd == Decode(c, n, a)
           st == Apply(cmd, mp3_files, focused_index, selected_index)
       IN /\ mp3_files' = st.files
          /\ focused_index' = st.focus
          /\ selected_index' = st.sel
          /\ pc' = IF cmd \in {"Combine", "Quit"} THEN "after_loop" ELSE "loop"
          /\ term' = IF RestoresInLoop(cmd) THEN original_settings ELSE term
          /\ restores' = IF RestoresInLoop(cmd) THEN restores + 1 ELSE restores
          /\ trace' = NextTrace(cmd)
          /\ pick' = NextPick(cmd)
          /\ final_order' = IF cmd \in {"Combine", "Quit"} THEN st.files ELSE final_order
    /\ consumed' = BytesConsumed(c, n, a)
    /\ UNCHANGED <<original_settings, i, combined_audio, output_file, raised,
                   reported, exit_code, attempts, results, exports,
                   initial_files, all_items>>

MoveUp == KeyEvent(ESC, "[", "A")
MoveDown == KeyEvent(ESC, "[", "B")
TogglePick == \E c \in {CR, LF} : KeyEvent(c, EOF, EOF)
Combine == KeyEvent("c", EOF, EOF)
Quit == KeyEvent("q", EOF, EOF)
Ignore ==
    \E c \in FirstReads, n \in Reads, a \in Reads :
        /\ Decode(c, n, a) = "Ignore"
        /\ c # ESC => (n = EOF /\ a = EOF)
        /\ (c = ESC /\ n # "[") => a = EOF
        /\ KeyEvent(c, n, a)

\* ---------------------------------------------------------------- start-up
Init ==
    /\ pc = "start"
    /\ term \in Modes
    /\ original_settings = Unbound
    /\ mp3_files = <<>>
    /\ focused_index = 0
    /\ selected_index = None
    /\ char = Unbound
    /\ eof = FALSE
    /\ i = 0
    /\ combined_audio = <<>>
    /\ output_file = <<>>
    /\ raised = "none"
    /\ reported = "none"
    /\ exit_code = 0
    /\ restores = 0
    /\ attempts = <<>>
    /\ results = <<>>
    /\ exports = 0
    /\ initial_files = <<>>
    /\ final_order = <<>>
    /\ pick = NoPick
    /\ trace = <<>>
    /\ all_items = <<>>
    /\ consumed = 0

\* sys.exit(1) before the try block, after printing the message msg.
ExitEarly(msg) ==
    /\ pc' = "exited"
    /\ reported' = msg
    /\ exit_code' = 1
    /\ UNCHANGED <<term, original_settings, mp3_files, focused_index,
                   selected_index, char, eof, i, combined_audio, output_file,
                   raised, restores, attempts, results, exports,
                   initial_files, final_order, pick, trace, all_items,
                   consumed>>

FolderNotFound == pc = "start" /\ ExitEarly("NotFound")
NotADirectory == pc = "start" /\ ExitEarly("NotADirectory")

\* The call of list_mp3_files on an existing folder.
ListFiles ==
    /\ pc = "start"
    /\ \E d \in Directories : \E items \in Orderings(d) :
          /\ all_items' = items
          /\ mp3_files' = list_mp3_files(items)
          /\ initial_files' = list_mp3_files(items)
    /\ pc' = "listed"
    /\ UNCHANGED <<term, original_settings, focused_index, selected_index,
                   char, eof, i, combined_audio, output_file, raised,
                   reported, exit_code, restores, attempts, results, exports,
                   final_order, pick, trace, consumed>>

NoFiles == pc = "listed" /\ mp3_files = <<>> /\ ExitEarly("NoFiles")

\* The test for an empty list is missing.
Setup_anylist ==
    /\ pc = "listed"
    /\ all_items' = <<>>
    /\ focused_index' = 0
    /\ selected_index' = None
    /\ original_settings' = term
    /\ pc' = "setraw"
    /\ UNCHANGED <<mp3_files, initial_files, final_order, term, char, eof,
                   i, combined_audio, output_file, raised, reported,
                   exit_code, restores, attempts, results, exports, pick,
                   trace, consumed>>

\* The list is not empty: the two indices and the saved terminal settings
\* are set up.
Setup ==
    /\ pc = "listed"
    /\ mp3_files # <<>>
    /\ all_items' = <<>>
    /\ focused_index' = 0
    /\ selected_index' = None
    /\ original_settings' = term
    /\ pc' = "setraw"
    /\ UNCHANGED <<mp3_files, initial_files, final_order, term, char, eof,
                   i, combined_audio, output_file, raised, reported,
                   exit_code, restores, attempts, results, exports, pick,
                   trace, consumed>>

SetRaw ==
    /\ pc = "setraw"
    /\ term' = RAW
    /\ pc' = "loop"
    /\ UNCHANGED <<original_settings, mp3_files, focused_index,
                   selected_index, char, eof, i, combined_audio, output_file,
                   raised, reported, exit_code, restores, attempts, results,
                   exports, initial_files, final_order, pick, trace, all_items, consumed>>

\* An exception (a failed read or write, an interrupt) raised inside the loop.
LoopException ==
    /\ pc = "loop"
    /\ raised' = "Exception"
    /\ pc' = "finally"
    /\ trace' = <<>>
    /\ pick' = NoPick
    /\ UNCHANGED <<term, original_settings, mp3_files, focused_index,
                   selected_index, char, eof, i, combined_audio, output_file,
                   reported, exit_code, restores, attempts, results, exports,
                   initial_files, final_order, all_items, consumed>>

\* ------------------------------------------------------------ combine pass
\* The test also takes the 'q' exit for a combine.
ExitedByCombine_any(c) == c = "c" \/ c = "q"

\* The test made after the loop on the leftover variable char.
ExitedByCombine(c) == c = "c"

AfterLoopCombine ==
    /\ pc = "after_loop"
    /\ ExitedByCombine(char)
    /\ combined_audio' = <<>>
    /\ i' = 0
    /\ pc' = "combine"
    /\ UNCHANGED <<term, original_settings, mp3_files, focused_index,
                   selected_index, char, eof, output_file, raised, reported,
                   exit_code, restores, attempts, results, exports,
                   initial_files, final_order, pick, trace, all_items, consumed>>

AfterLoopQuit ==
    /\ pc = "after_loop"
    /\ ~ExitedByCombine(char)
    /\ pc' = "finally"
    /\ UNCHANGED <<term, original_settings, mp3_files, focused_index,
                   selected_index, char, eof, i, combined_audio, output_file,
                   raised, reported, exit_code, restores, attempts, results,
                   exports, initial_files, final_order, pick, trace, all_items, consumed>>

FileSegment(filename, ms) == [kind |-> "file", name |-> filename, ms |-> ms]
Silence(ms) == [kind |-> "silence", name |-> "", ms |-> ms]

\* The silence is appended whether or not the file was decoded.
ProcessFile_gap(combined, k, n, filename, outcome) ==
    LET c1 == IF outcome.ok THEN Append(combined, FileSegment(filename, outcome.ms))
                            ELSE combined
    IN IF k < n - 1 THEN Append(c1, Silence(SilenceMs)) ELSE c1

\* Body of the combine loop for the file at Python index k of n files.
ProcessFile(combined, k, n, filename, outcome) ==
    IF outcome.ok
      THEN LET c1 == Append(combined, FileSegment(filename, outcome.ms))
           IN IF k < n - 1 THEN Append(c1, Silence(SilenceMs)) ELSE c1
      ELSE combined

\* The exception of a file that cannot be read is not caught: it leaves the
\* combine loop and the try block.
CombineStep_abort ==
    /\ pc = "combine"
    /\ i < Len(mp3_files)
    /\ \E o \in Outcomes :
          /\ combined_audio' = ProcessFile(combined_audio, i, Len(mp3_files),
                                           mp3_files[i + 1], o)
          /\ results' = Append(results, o)
          /\ pc' = IF o.ok THEN pc ELSE "finally"
          /\ raised' = IF o.ok THEN raised ELSE "Exception"
    /\ attempts' = Append(attempts, mp3_files[i + 1])
    /\ i' = i + 1
    /\ UNCHANGED <<term, original_settings, mp3_files, focused_index,
                   selected_index, char, eof, output_file, reported,
                   exit_code, restores, exports, initial_files, final_order,
                   pick, trace, all_items, consumed>>

CombineStep ==
    /\ pc = "combine"
    /\ i < Len(mp3_files)
    /\ \E o \in Outcomes :
          /\ combined_audio' = ProcessFile(combined_audio, i, Len(mp3_files),
                                           mp3_files[i + 1], o)
          /\ results' = Append(results, o)
    /\ attempts' = Append(attempts, mp3_files[i + 1])
    /\ i' = i + 1
    /\ UNCHANGED <<pc, term, original_settings, mp3_files, focused_index,
                   selected_index, char, eof, output_file, raised, reported,
                   exit_code, restores, exports, initial_files, final_order,
                   pick, trace, all_items, consumed>>

RECURSIVE AudioLen(_)
\* len(combined_audio): its duration in ms
AudioLen(combined) ==
    IF combined = <<>> THEN 0
    ELSE combined[1].ms + AudioLen(Tail(combined))

\* The guard accepts an empty result.
HasAudio_always(combined) == AudioLen(combined) >= 0

\* The guard of the export
HasAudio(combined) == AudioLen(combined) > 0

ExportOk ==
    /\ pc = "combine"
    /\ i = Len(mp3_files)
    /\ HasAudio(combined_audio)
    /\ exports' = exports + 1
    /\ output_file' = combined_audio
    /\ pc' = "finally"
    /\ UNCHANGED <<term, original_settings, mp3_files, focused_index,
                   selected_index, char, eof, i, combined_audio, raised,
                   reported, exit_code, restores, attempts, results,
                   initial_files, final_order, pick, trace, all_items, consumed>>

ExportIOError ==
    /\ pc = "combine"
    /\ i = Len(mp3_files)
    /\ HasAudio(combined_audio)
    /\ exports' = exports + 1
    /\ reported' = "OutputWrite"
    /\ raised' = "SystemExit"
    /\ pc' = "finally"
    /\ UNCHANGED <<term, original_settings, mp3_files, focused_index,
                   selected_index, char, eof, i, combined_audio, output_file,
                   exit_code, restores, attempts, results, initial_files,
                   final_order, pick, trace, all_items, consumed>>

NoValidInput ==
    /\ pc = "combine"
    /\ i = Len(mp3_files)
    /\ ~HasAudio(combined_audio)
    /\ reported' = "NoValidInput"
    /\ raised' = "SystemExit"
    /\ pc' = "finally"
    /\ UNCHANGED <<term, original_settings, mp3_files, focused_index,
                   selected_index, char, eof, i, combined_audio, output_file,
                   exit_code, restores, attempts, results, exports,
                   initial_files, final_order, pick, trace, all_items, consumed>>

\* ------------------------------------------------------------------ finally
\* The finally block without its tcsetattr call.
Finally_norestore ==
    /\ pc = "finally"
    /\ pc' = "exited"
    /\ exit_code' = IF raised = "none" THEN 0 ELSE 1
    /\ UNCHANGED <<term, restores, original_settings, mp3_files,
                   focused_index, selected_index, char, eof, i,
                   combined_audio, output_file, raised, reported, attempts,
                   results, exports, initial_files, final_order, pick, trace, all_items, consumed>>

\* The finally block, then the end of the process: exit code 0 when nothing
\* is propagating, 1 for sys.exit(1) and for an uncaught exception.
Finally ==
    /\ pc = "finally"
    /\ term' = original_settings
    /\ restores' = restores + 1
    /\ pc' = "exited"
    /\ exit_code' = IF raised = "none" THEN 0 ELSE 1
    /\ UNCHANGED <<original_settings, mp3_files, focused_index,
                   selected_index, char, eof, i, combined_audio, output_file,
                   raised, reported, attempts, results, exports,
                   initial_files, final_order, pick, trace, all_items, consumed>>

Next ==
    \/ FolderNotFound
    \/ NotADirectory
    \/ ListFiles
    \/ NoFiles
    \/ Setup
    \/ SetRaw
    \/ MoveUp
    \/ MoveDown
    \/ TogglePick
    \/ Ignore
    \/ Combine
    \/ Quit
    \/ LoopException
    \/ AfterLoopCombine
    \/ AfterLoopQuit
    \/ CombineStep
    \/ ExportOk
    \/ ExportIOError
    \/ NoValidInput
    \/ Finally

Spec == Init /\ [][Next]_vars

\* ------------------------------------------------------------- properties
\* The three-file list [A, B, C] of the scenarios, as list_mp3_files
\* returns it for a folder holding these three names.
FileA == "C.mp3"
FileB == "a.MP3"
FileC == "b.mp3"

Count(s, x) == Cardinality({k \in 1..Len(s) : s[k] = x})

InDragMode == selected_index # None

\* The loop was entered: the terminal settings were saved and raw mode set.
EnteredLoop == pc \notin {"start", "setraw"} /\ original_settings # Unbound

\* The loop was left by the 'c' key and the combine pass is over.
CombineOver == char = "c" /\ pc \in {"finally", "exited"}

\* C1: in every reachable state the edited list is a permutation of the list
\* the session started with: same length, every initial filename present
\* exactly once, no other filename present.
C1_SequenceIsPermutation ==
    /\ Len(mp3_files) = Len(initial_files)
    /\ \A f \in Range(initial_files) : Count(mp3_files, f) = 1
    /\ Range(mp3_files) \subseteq Range(initial_files)

\* A three-file list fully reversed by drag moves, still in drag mode.
C1_Witness ==
    /\ pc = "loop"
    /\ initial_files = <<FileA, FileB, FileC>>
    /\ mp3_files = <<FileC, FileB, FileA>>
    /\ InDragMode

\* C2 as claimed: on every exit path from the interactive loop the terminal
\* settings are restored exactly once.
C2_RestoredExactlyOnce ==
    (pc = "exited" /\ EnteredLoop) => restores = 1

\* C2 as amended: on every exit path from the interactive loop the terminal
\* settings are restored at least once: exactly once when the loop is left
\* by Quit or by an exception, exactly twice when it is left by Combine
\* (in the 'c' branch and again in the finally block).
C2_RestoredOnceOrTwice ==
    (pc = "exited" /\ EnteredLoop) =>
        restores = (IF char = "c" THEN 2 ELSE 1)

\* A successful combine run has ended: two restorations were made.
C2_Witness ==
    /\ pc = "exited"
    /\ char = "c"
    /\ exit_code = 0
    /\ exports = 1
    /\ restores = 2

\* C3: whenever the process ends after the terminal was put into raw mode
\* (Quit, Combine with any outcome, an exception inside the loop), the
\* terminal mode equals the mode saved before raw mode was entered.
C3_ModeRestoredAtExit ==
    (pc = "exited" /\ EnteredLoop) =>
        (term = original_settings /\ term \in Modes)

\* The run ended in the output-write fatal error, terminal back in cbreak.
C3_Witness ==
    /\ pc = "exited"
    /\ reported = "OutputWrite"
    /\ exit_code = 1
    /\ original_settings = "cbreak"
    /\ term = "cbreak"

AtTop == IF InDragMode THEN selected_index = 0 ELSE focused_index = 0
AtBottom ==
    IF InDragMode THEN selected_index = Len(mp3_files) - 1
    ELSE focused_index = Len(mp3_files) - 1

\* C4: an up arrow at the top (focus 0 in browse mode, picked 0 in drag
\* mode) and a down arrow at the bottom (focus or picked at length-1) change
\* none of sequence, focus and picked, raise nothing, and the loop goes on.
C4_BoundaryMoveIsNoOp ==
    [][((MoveUp /\ AtTop) \/ (MoveDown /\ AtBottom)) =>
          /\ UNCHANGED <<mp3_files, focused_index, selected_index>>
          /\ raised' = "none"
          /\ pc' = "loop"]_vars

\* A one-file list, picked, then moved up and moved down: both moves were at
\* the boundary and the entry is still picked at index 0.
C4_Witness ==
    /\ pc = "loop"
    /\ Len(mp3_files) = 1
    /\ trace = <<"TogglePick", "MoveUp", "MoveDown">>
    /\ Current = Editor(<<"b.mp3">>, 0, 0)

\* C5: after TogglePick immediately followed by TogglePick from a browse-mode
\* state, the editor is back in exactly that state: same sequence, same
\* focus, nothing picked.
C5_PickUnpickRestores ==
    trace = <<"TogglePick", "TogglePick">> => Current = pick

\* Pick then unpick on a reordered list with the focus away from the top.
C5_Witness ==
    /\ trace = <<"TogglePick", "TogglePick">>
    /\ mp3_files # initial_files
    /\ focused_index = 1
    /\ selected_index = None

\* The list s with the entry at Python index a moved down to index b >= a,
\* the entries in between each moved up by one.
MovedDown(s, a, b) ==
    [k \in 1..Len(s) |->
        IF k - 1 < a \/ k - 1 > b THEN s[k]
        ELSE IF k - 1 < b THEN s[k + 1]
        ELSE s[a + 1]]

\* A drag session made of a pick, MoveDowns only, and the unpick.
IsPickDownsUnpick(t) ==
    /\ Len(t) >= 2
    /\ t[1] = "TogglePick"
    /\ t[Len(t)] = "TogglePick"
    /\ \A k \in 2..(Len(t) - 1) : t[k] = "MoveDown"

\* C6: the combine pass attempts the files in exactly the order the list had
\* when the loop was left, each once; picking the entry at index i, k
\* MoveDowns and the unpick leave that entry at index min(i+k, length-1)
\* and the other entries in their relative order (the unpick undoes
\* nothing); from [A,B,C] with focus 0, TogglePick, MoveDown, MoveDown,
\* TogglePick gives [B,C,A].
C6_CombineUsesFinalOrder ==
    /\ attempts = SubSeq(final_order, 1, i)
    /\ CombineOver => (attempts = final_order /\ final_order = mp3_files)
    /\ IsPickDownsUnpick(trace) =>
          /\ mp3_files = MovedDown(pick.files, pick.focus,
                                   Min(pick.focus + Len(trace) - 2, Len(pick.files) - 1))
          /\ selected_index = None
    /\ (trace = <<"TogglePick", "MoveDown", "MoveDown", "TogglePick">>
          /\ pick = Editor(<<FileA, FileB, FileC>>, 0, None))
          => mp3_files = <<FileB, FileC, FileA>>

\* The combine pass ran over [B,C,A], reached from [A,B,C].
C6_Witness ==
    /\ pc = "exited"
    /\ char = "c"
    /\ initial_files = <<FileA, FileB, FileC>>
    /\ final_order = <<FileB, FileC, FileA>>
    /\ attempts = <<FileB, FileC, FileA>>

RECURSIVE Succeeded(_, _)
\* The segments of the files whose decode succeeded, in attempt order.
Succeeded(names, res) ==
    IF names = <<>> THEN <<>>
    ELSE (IF Head(res).ok THEN <<FileSegment(Head(names), Head(res).ms)>> ELSE <<>>)
            \o Succeeded(Tail(names), Tail(res))

RECURSIVE Interleaved(_)
\* The segments s with one silence between each two consecutive ones.
Interleaved(s) ==
    IF Len(s) <= 1 THEN s
    ELSE <<Head(s), Silence(SilenceMs)>> \o Interleaved(Tail(s))

\* C7 as claimed: when at least one file was decoded, the combined audio is
\* the decoded segments in order with one 3000 ms silence between each two
\* consecutive ones, and no leading or trailing silence.
C7_SilenceOnlyBetweenDecoded ==
    (CombineOver /\ Succeeded(attempts, results) # <<>>) =>
        combined_audio = Interleaved(Succeeded(attempts, results))

\* C8: with three files of which only the second fails to decode, the
\* combined audio is file 1, one 3000 ms silence, file 3, and that is what
\* an export writes.
C8_MiddleFileSkipped ==
    (/\ CombineOver
     /\ Len(results) = 3
     /\ results[1].ok /\ ~results[2].ok /\ results[3].ok) =>
        /\ combined_audio = <<FileSegment(final_order[1], results[1].ms),
                              Silence(3000),
                              FileSegment(final_order[3], results[3].ms)>>
        /\ exports = 1
        /\ reported = "none" => output_file = combined_audio

\* A run over [A,C,B] in which C failed to decode wrote A, silence, B.
C8_Witness ==
    /\ pc = "exited"
    /\ exit_code = 0
    /\ final_order = <<FileA, FileC, FileB>>
    /\ results = <<[ok |-> TRUE, ms |-> 1000], [ok |-> FALSE, ms |-> 0],
                   [ok |-> TRUE, ms |-> 1000]>>
    /\ output_file = <<FileSegment(FileA, 1000), Silence(3000),
                        FileSegment(FileB, 1000)>>

\* The combine loop has gone through all N >= 1 files and none was decoded.
AllFailed ==
    /\ char = "c"
    /\ pc \in {"combine", "finally", "exited"}
    /\ Len(results) = Len(mp3_files)
    /\ \A k \in 1..Len(results) : ~results[k].ok

\* C9: when every file of the final order failed to decode, no export is
\* ever attempted, the no-valid-input error is reported and the process
\* exits with code 1.
C9_AllFailedNoExport ==
    AllFailed =>
        /\ exports = 0
        /\ output_file = <<>>
        /\ pc \in {"finally", "exited"} =>
              (reported = "NoValidInput" /\ raised = "SystemExit")
        /\ pc = "exited" => exit_code = 1

\* Three files, all failed: the run ended with the no-valid-input error.
C9_Witness ==
    /\ pc = "exited"
    /\ Len(attempts) = 3
    /\ \A k \in 1..3 : ~results[k].ok
    /\ reported = "NoValidInput"
    /\ exit_code = 1

\* C10: once the loop was left by Quit, no file is ever decoded and no
\* output is ever encoded or written.
C10_QuitDoesNoCombineWork ==
    (char = "q" /\ pc \in {"after_loop", "combine", "finally", "exited"}) =>
        /\ pc # "combine"
        /\ attempts = <<>>
        /\ results = <<>>
        /\ combined_audio = <<>>
        /\ exports = 0
        /\ output_file = <<>>

\* Quit pressed in drag mode on a reordered list; the process has ended.
C10_Witness ==
    /\ pc = "exited"
    /\ char = "q"
    /\ InDragMode
    /\ mp3_files # initial_files
    /\ exit_code = 0

\* The name ends in ".mp3" whatever the case of its letters.
IsMp3Name(name) ==
    LET cs == Chars(name)
        n == Len(cs)
    IN /\ n >= 4
       /\ cs[n - 3] = "."
       /\ cs[n - 2] \in {"m", "M"}
       /\ cs[n - 1] \in {"p", "P"}
       /\ cs[n] = "3"

\* Nothing was done to the terminal or the input and the step does nothing
\* to them: no settings saved, no raw mode, no key read, no restore.
TerminalUntouched ==
    /\ original_settings = Unbound
    /\ char = Unbound
    /\ consumed = 0
    /\ restores = 0
    /\ term \in Modes
    /\ UNCHANGED <<term, original_settings, char, consumed, restores, eof>>

\* C11: when the input folder does not exist or is not a directory, and when
\* the folder holds no entry whose name matches, the next step of the
\* program is its exit with code 1, made without entering the loop and
\* without saving, changing or restoring the terminal mode or reading a key.
C11_EarlyExitLeavesTerminalAlone ==
    [][(\/ reported' \in {"NotFound", "NotADirectory"}
        \/ (pc = "listed" /\ \A e \in Range(all_items) : ~IsMp3Name(e)))
       => /\ pc' = "exited"
          /\ exit_code' = 1
          /\ TerminalUntouched]_vars

\* A folder holding c.txt and mp3 only: exit code 1, terminal never touched.
C11_Witness ==
    /\ pc = "exited"
    /\ reported = "NoFiles"
    /\ Range(all_items) = {"c.txt", "mp3"}
    /\ exit_code = 1
    /\ original_settings = Unbound
    /\ term = "cooked"
    /\ char = Unbound
    /\ restores = 0

\* C12 as claimed: while the input has not ended, every key event takes
\* exactly 1 byte or exactly 3 bytes from the input, never 2, so that the
\* byte after an ESC that is not followed by '[' is a key event of its own.
C12_KeyTakesOneOrThreeBytes ==
    (char # Unbound /\ ~eof) => consumed \in {1, 3}

\* C13: a key event that is none of MoveUp, MoveDown, TogglePick, Combine
\* and Quit (another plain byte, ESC '[' X with X not A or B, an escape
\* sequence cut short by the end of input) changes none of sequence, focus
\* and picked, raises nothing, and the loop goes on.
C13_IgnoreIsNoOp ==
    [][Ignore =>
          /\ UNCHANGED <<mp3_files, focused_index, selected_index>>
          /\ raised' = "none"
          /\ pc' = "loop"]_vars

\* In drag mode the input ended after ESC '[': the picked entry is where it
\* was and the loop goes on.
C13_Witness ==
    /\ pc = "loop"
    /\ char = ESC
    /\ eof
    /\ consumed = 2
    /\ trace = <<"TogglePick", "Ignore">>
    /\ Current = Editor(pick.files, pick.focus, pick.focus)
    /\ pick.focus = 1

\* Name x comes strictly before name y in lexicographic order: they agree
\* up to some position where x has ended and y has not, or where the
\* character of x has the smaller code point.
LexBefore(x, y) ==
    LET a == Chars(x)
        b == Chars(y)
    IN \E k \in 1..(Len(b)) :
          /\ k <= Len(a) + 1
          /\ \A j \in 1..(k - 1) : a[j] = b[j]
          /\ (k <= Len(a) => CodePoint(a[k]) < CodePoint(b[k]))

\* C14: for every folder content and every order the entries are listed in,
\* the file lister returns exactly the entries whose lowercased name ends
\* with '.mp3', each once, in ascending lexicographic order; for a folder
\* holding b.mp3, a.MP3 and c.txt it returns [a.MP3, b.mp3].
C14_ListerReturnsSortedMp3s ==
    pc = "listed" =>
        LET matching == {e \in Range(all_items) : IsMp3Name(e)}
        IN /\ Range(mp3_files) = matching
           /\ Len(mp3_files) = Cardinality(matching)
           /\ \A j, k \in 1..Len(mp3_files) :
                 j < k => LexBefore(mp3_files[j], mp3_files[k])
           /\ (Range(all_items) = {"b.mp3", "a.MP3", "c.txt"}
                 => mp3_files = <<"a.MP3", "b.mp3">>)

\* The folder of the example, listed by the system as b.mp3, a.MP3, c.txt.
C14_Witness ==
    /\ pc = "listed"
    /\ all_items = <<"b.mp3", "a.MP3", "c.txt">>
    /\ mp3_files = <<"a.MP3", "b.mp3">>

\* The list s is list t but for the entries at Python indices a and b,
\* which have changed places.
SwappedAt(s, t, a, b) ==
    /\ Len(s) = Len(t)
    /\ s[a + 1] = t[b + 1]
    /\ s[b + 1] = t[a + 1]
    /\ \A k \in 1..Len(t) : (k - 1 # a /\ k - 1 # b) => s[k] = t[k]

\* C15: MoveUp and MoveDown make the stated transition. In browse mode the
\* focus becomes focus-1 but not below 0 (MoveUp) or focus+1 but not above
\* length-1 (MoveDown), sequence and picked unchanged. In drag mode away
\* from the boundary the picked entry changes places with the neighbour
\* above (MoveUp) or below (MoveDown), picked moves by one that way, focus
\* becomes the new picked, every other position is unchanged.
C15_MoveTransition ==
    [][/\ (MoveUp /\ ~InDragMode) =>
              /\ focused_index' = (IF focused_index = 0 THEN 0 ELSE focused_index - 1)
              /\ UNCHANGED <<mp3_files, selected_index>>
       /\ (MoveDown /\ ~InDragMode) =>
              /\ focused_index' = (IF focused_index = Len(mp3_files) - 1
                                     THEN focused_index ELSE focused_index + 1)
              /\ UNCHANGED <<mp3_files, selected_index>>
       /\ (MoveUp /\ InDragMode /\ selected_index > 0) =>
              /\ selected_index' = selected_index - 1
              /\ focused_index' = selected_index - 1
              /\ SwappedAt(mp3_files', mp3_files, selected_index, selected_index - 1)
       /\ (MoveDown /\ InDragMode /\ selected_index < Len(mp3_files) - 1) =>
              /\ selected_index' = selected_index + 1
              /\ focused_index' = selected_index + 1
              /\ SwappedAt(mp3_files', mp3_files, selected_index, selected_index + 1)
      ]_vars

\* The focus was moved down to the second of three entries in browse mode,
\* that entry was picked and moved up to the top.
C15_Witness ==
    /\ pc = "loop"
    /\ trace = <<"TogglePick", "MoveUp">>
    /\ pick = Editor(<<FileA, FileB, FileC>>, 1, None)
    /\ Current = Editor(<<FileB, FileA, FileC>>, 0, 0)

\* C16: in every state of the interactive loop 0 <= focus < length, and
\* when an entry is picked 0 <= picked < length.
C16_IndicesInRange ==
    pc = "loop" =>
        /\ 0 <= focused_index
        /\ focused_index < Len(mp3_files)
        /\ InDragMode => (0 <= selected_index /\ selected_index < Len(mp3_files))

\* The last of three entries was picked and a down arrow pressed: focus and
\* picked are still the last index.
C16_Witness ==
    /\ pc = "loop"
    /\ Len(mp3_files) = 3
    /\ pick.focus = 2
    /\ trace = <<"TogglePick", "MoveDown">>
    /\ focused_index = 2
    /\ selected_index = 2

\* C17: in the interactive loop, whenever an entry is picked, focus equals
\* picked, and the filename at index picked is the filename that was picked
\* when drag mode began.
C17_FocusFollowsPicked ==
    (pc = "loop" /\ InDragMode) =>
        /\ focused_index = selected_index
        /\ mp3_files[selected_index + 1] = pick.files[pick.focus + 1]

\* In a two-file list the first entry was picked and moved down twice: one
\* real move, one move at the bottom boundary.
C17_Witness ==
    /\ pc = "loop"
    /\ trace = <<"TogglePick", "MoveDown", "MoveDown">>
    /\ pick = Editor(<<"a.MP3", "b.mp3">>, 0, None)
    /\ Current = Editor(<<"b.mp3", "a.MP3">>, 1, 1)

\* C18: once Combine has started, a file that fails to decode or to be read
\* never aborts the run: while the file loop runs nothing is raised, the
\* files attempted so far are the first i files of the final order, with
\* one outcome each, and either a next file can be attempted or the loop is
\* over and the export or the no-valid-input exit can be taken; when the
\* combine is over every file of the final order has been attempted once,
\* in order, and the run made an export attempt or reported no valid input.
C18_FailureNeverAborts ==
    /\ pc = "combine" =>
          /\ raised = "none"
          /\ i <= Len(final_order)
          /\ Len(results) = i
          /\ attempts = SubSeq(final_order, 1, i)
          /\ IF i < Len(final_order)
               THEN ENABLED CombineStep
               ELSE ENABLED (ExportOk \/ ExportIOError \/ NoValidInput)
    /\ CombineOver =>
          /\ attempts = final_order
          /\ Len(results) = Len(final_order)
          /\ \A f \in Range(final_order) : Count(attempts, f) = 1
          /\ (exports = 1 /\ reported \in {"none", "OutputWrite"})
                \/ (exports = 0 /\ reported = "NoValidInput")

\* Three files, the first and the last failed, the second decoded: the run
\* went on to the export.
C18_Witness ==
    /\ pc = "exited"
    /\ char = "c"
    /\ Len(final_order) = 3
    /\ attempts = final_order
    /\ ~results[1].ok
    /\ results[2].ok
    /\ ~results[3].ok
    /\ exports = 1
    /\ exit_code = 0

\* C19 as claimed: a key read that returns no byte because the input has
\* ended ends the interactive loop like a Quit: the loop is left, no combine
\* work is done, and the run ends with the terminal mode restored.
C19_EofEndsLoop ==
    char = EOF =>
        /\ pc \in {"after_loop", "finally", "exited"}
        /\ attempts = <<>>
        /\ exports = 0
        /\ pc = "exited" => term = original_settings

\* C20: every key read of the interactive loop is made with the terminal in
\* raw mode, and every step of the combine phase (decode, silence, encode)
\* is made with the terminal back in the saved original mode, not raw.
C20_ModeMatchesPhase ==
    /\ pc = "loop" => term = RAW
    /\ (pc = "combine" \/ (pc = "after_loop" /\ char = "c")) =>
          /\ term = original_settings
          /\ term # RAW
    /\ (attempts # <<>> \/ exports > 0) => term # RAW

\* The combine loop has decoded its first file and added the silence, in a
\* terminal that was saved and restored as cbreak.
C20_Witness ==
    /\ pc = "combine"
    /\ i = 1
    /\ Len(combined_audio) = 2
    /\ original_settings = "cbreak"
    /\ term = "cbreak"
    /\ restores = 1

====
